---- MODULE Spec2Model ----
(***************************************************************************)
(* Model of kivymd/tools/patterns/create_project.py: the project           *)
(* generator main() and the helpers it calls, over an abstract file        *)
(* system.  A text is a sequence of tokens; the token "%s" is a            *)
(* positional placeholder and the token "\n" is a line break.              *)
(***************************************************************************)
EXTENDS Integers, Sequences, FiniteSets, TLC

VARIABLES
    args,       \* the parsed command line (argparse namespace)
    files,      \* file system: file key -> text
    dirs,       \* file system: set of existing directories
    cwd,        \* process working directory
    pc,         \* position in main()
    status,     \* "running", "error" (parser.error), "crash" (exception), "ok"
    events,     \* file system mutations and external commands of this run
    message,    \* what the run printed when it stopped
    run,        \* number of the current invocation
    prev,       \* status in which the previous invocation ended
    files0,     \* files when the current invocation started
    dirs0       \* dirs when the current invocation started

vars == <<args, files, dirs, cwd, pc, status, events, message, run, prev, files0, dirs0>>

\* Number of invocations of the tool with the same command line.
MaxRuns == 2

-----------------------------------------------------------------------------
(* Strings.  TLC strings are atomic, so the characters of every string the *)
(* model slices, scans or lower-cases are listed in Spell.                 *)

UpperChars == <<"A", "B", "C", "D", "E", "F", "G", "H", "I", "J", "K", "L", "M",
                "N", "O", "P", "Q", "R", "S", "T", "U", "V", "W", "X", "Y", "Z">>

LowerChars == <<"a", "b", "c", "d", "e", "f", "g", "h", "i", "j", "k", "l", "m",
                "n", "o", "p", "q", "r", "s", "t", "u", "v", "w", "x", "y", "z">>

Range(s) == {s[i] : i \in DOMAIN s}

IsUpper(c) == c \in Range(UpperChars)

IsLower(c) == c \in Range(LowerChars)

\* str.lower() on one character
LowerChar(c) ==
    IF IsUpper(c)
    THEN LowerChars[CHOOSE i \in DOMAIN UpperChars : UpperChars[i] = c]
    ELSE c

Spell ==
    [s \in {"LoginScreen", "UserLoginScreen", "Screen", "Login", "mainScreen",
            "Main Screen", "MainScreen", "login_screen", "user_login_screen",
            "user_login", "main_screen", "My App", "MyApp", "python3.10",
            "python2", "login screen", "user login screen", "main screen",
            "screen"} |->
      CASE s = "LoginScreen" -> <<"L","o","g","i","n","S","c","r","e","e","n">>
        [] s = "UserLoginScreen" ->
               <<"U","s","e","r","L","o","g","i","n","S","c","r","e","e","n">>
        [] s = "Screen" -> <<"S","c","r","e","e","n">>
        [] s = "Login" -> <<"L","o","g","i","n">>
        [] s = "mainScreen" -> <<"m","a","i","n","S","c","r","e","e","n">>
        [] s = "Main Screen" -> <<"M","a","i","n"," ","S","c","r","e","e","n">>
        [] s = "MainScreen" -> <<"M","a","i","n","S","c","r","e","e","n">>
        [] s = "login_screen" -> <<"l","o","g","i","n","_","s","c","r","e","e","n">>
        [] s = "user_login_screen" ->
               <<"u","s","e","r","_","l","o","g","i","n","_","s","c","r","e","e","n">>
        [] s = "user_login" -> <<"u","s","e","r","_","l","o","g","i","n">>
        [] s = "main_screen" -> <<"m","a","i","n","_","s","c","r","e","e","n">>
        [] s = "My App" -> <<"M","y"," ","A","p","p">>
        [] s = "MyApp" -> <<"M","y","A","p","p">>
        [] s = "python3.10" -> <<"p","y","t","h","o","n","3",".","1","0">>
        [] s = "python2" -> <<"p","y","t","h","o","n","2">>
        [] s = "login screen" -> <<"l","o","g","i","n"," ","s","c","r","e","e","n">>
        [] s = "user login screen" ->
               <<"u","s","e","r"," ","l","o","g","i","n"," ","s","c","r","e","e","n">>
        [] s = "main screen" -> <<"m","a","i","n"," ","s","c","r","e","e","n">>
        [] s = "screen" -> <<"s","c","r","e","e","n">>]

\* the string whose characters are cs
ToStr(cs) == CHOOSE s \in DOMAIN Spell : Spell[s] = cs

\* "".join(s.split(" ")) on characters
RECURSIVE StripSpaces(_)
StripSpaces(cs) ==
    IF cs = <<>> THEN <<>>
    ELSE IF Head(cs) = " " THEN StripSpaces(Tail(cs))
    ELSE <<Head(cs)>> \o StripSpaces(Tail(cs))

\* s[-n:]
LastChars(cs, n) ==
    IF Len(cs) <= n THEN cs ELSE SubSeq(cs, Len(cs) - n + 1, Len(cs))

\* length of the longest run of [a-z] starting at position i
RECURSIVE LowerRun(_, _)
LowerRun(cs, i) ==
    IF i > Len(cs) \/ ~IsLower(cs[i]) THEN 0 ELSE 1 + LowerRun(cs, i + 1)

\* re.findall("[A-Z][a-z]*", s): leftmost, greedy, non-overlapping matches
RECURSIVE FindAllFrom(_, _)
FindAllFrom(cs, i) ==
    IF i > Len(cs) THEN <<>>
    ELSE IF IsUpper(cs[i])
         THEN LET n == LowerRun(cs, i + 1)
              IN  <<SubSeq(cs, i, i + n)>> \o FindAllFrom(cs, i + n + 1)
         ELSE FindAllFrom(cs, i + 1)

\* chek_camel_case_name_project asking for three words: "if len(result) <= 2"
chek_camel_case_three_words(cs) ==
    LET result == FindAllFrom(cs, 1)
    IN  IF Len(result) <= 2 THEN <<>> ELSE result

\* chek_camel_case_name_project: <<>> stands for a falsy result
\* (False when there is one word, the empty list when there is none)
chek_camel_case_name_project(cs) ==
    LET result == FindAllFrom(cs, 1)
    IN  IF Len(result) = 1 THEN <<>> ELSE result

\* "_".join([name.lower() for name in words])
RECURSIVE JoinLower(_)
JoinLower(words) ==
    IF words = <<>> THEN <<>>
    ELSE LET w == [i \in 1..Len(Head(words)) |-> LowerChar(Head(words)[i])]
         IN  IF Len(words) = 1 THEN w
             ELSE w \o <<"_">> \o JoinLower(Tail(words))

\* " ".join(module_name.split("_"))
UnderscoreToSpace(cs) == [i \in 1..Len(cs) |-> IF cs[i] = "_" THEN " " ELSE cs[i]]

-----------------------------------------------------------------------------
(* Values main() derives from the command line.                            *)

available_databases == {"firebase", "restdb"}

\* the directories under kivymd/tools/patterns the package ships
available_patterns == {"MVC"}

project_name(a) == ToStr(StripSpaces(Spell[a.name]))

name_screen_chars(a) == StripSpaces(Spell[a.name_screen])

name_screen(a) == ToStr(name_screen_chars(a))

module_name(a) == ToStr(JoinLower(chek_camel_case_name_project(name_screen_chars(a))))

\* os.path.join(project_directory, project_name)
path_to_project(a) ==
    [abs |-> a.directory.abs, comps |-> a.directory.comps \o <<project_name(a)>>]

\* the absolute directory a path designates under working directory wd
Resolve(p, wd) == IF p.abs THEN p.comps ELSE wd \o p.comps

-----------------------------------------------------------------------------
(* Texts and positional substitution.                                      *)

\* the concatenation of pieces[lo..hi]
RECURSIVE Concat(_, _, _)
Concat(pieces, lo, hi) ==
    IF lo > hi THEN <<>>
    ELSE IF lo = hi THEN pieces[lo]
    ELSE LET mid == (lo + hi) \div 2
         IN  Concat(pieces, lo, mid) \o Concat(pieces, mid + 1, hi)

SlotPositions(t) == {i \in DOMAIN t : t[i] = "%s"}

NumSlots(t) == Cardinality(SlotPositions(t))

\* text % values raises TypeError unless the counts agree
FmtOK(t, values) == NumSlots(t) = Len(values)

\* text % values: the i-th "%s" is replaced by the i-th value; a substituted
\* value is not scanned again
Fmt(t, values) ==
    LET Rank(i) == Cardinality({j \in SlotPositions(t) : j <= i})
        pieces == [i \in DOMAIN t |->
                     IF t[i] = "%s" /\ Rank(i) <= Len(values)
                     THEN values[Rank(i)] ELSE <<t[i]>>]
    IN  Concat(pieces, 1, Len(t))

\* CommentOut that prefixes the text once instead of every line
CommentOutFirstLine(t) == IF t = <<>> THEN <<>> ELSE <<"# ">> \o t

\* for string in readlines(): main_code += f"# {string}"
\* a line starts at the first token and after every line break
CommentOut(t) ==
    LET Starts(i) == i = 1 \/ t[i - 1] = "\n"
        pieces == [i \in DOMAIN t |-> IF Starts(i) THEN <<"# ", t[i]>> ELSE <<t[i]>>]
    IN  Concat(pieces, 1, Len(t))

-----------------------------------------------------------------------------
(* The file system.  A file key is a directory (absolute, a sequence of    *)
(* components), the stem of the file name and its extension                *)
(* (os.path.splitext).  A world is the part of the process state the       *)
(* helpers read and change; ok = FALSE once an exception has been raised,  *)
(* and an operation on such a world does nothing (the exception            *)
(* propagates out of main, nothing is rolled back).                        *)

FileKey(d, stem, ext) == [dir |-> d, stem |-> stem, ext |-> ext]

IsPrefix(p, d) == Len(p) <= Len(d) /\ SubSeq(d, 1, Len(p)) = p

Parent(d) == SubSeq(d, 1, Len(d) - 1)

\* os.path.join(path, *names)
Join(p, names) == [abs |-> p.abs, comps |-> p.comps \o names]

\* to: the extension a renamed file gets
Event(op, d, stem, ext, ok) ==
    [op |-> op, dir |-> d, stem |-> stem, ext |-> ext, to |-> "", ok |-> ok]

Raise(w) == [w EXCEPT !.ok = FALSE]

Log(w, e) == [w EXCEPT !.ev = Append(@, e)]

PutFile(fs, k, text) ==
    [x \in DOMAIN fs \cup {k} |-> IF x = k THEN text ELSE fs[x]]

DropFile(fs, k) == [x \in DOMAIN fs \ {k} |-> fs[x]]

\* open(path, "w").write(text)
write_file(w, p, stem, ext, text) ==
    LET k == FileKey(Resolve(p, w.cwd), stem, ext)
    IN  IF ~w.ok THEN w
        ELSE IF k.dir \notin w.dirs THEN Raise(w)
        ELSE Log([w EXCEPT !.files = PutFile(@, k, text)],
                 Event("write", k.dir, stem, ext, TRUE))

\* open(path, "a").write(text)
append_file(w, p, stem, ext, text) ==
    LET k == FileKey(Resolve(p, w.cwd), stem, ext)
    IN  IF ~w.ok THEN w
        ELSE IF k.dir \notin w.dirs THEN Raise(w)
        ELSE Log([w EXCEPT !.files =
                      PutFile(@, k, (IF k \in DOMAIN @ THEN @[k] ELSE <<>>) \o text)],
                 Event("append", k.dir, stem, ext, TRUE))

replace_in_file(w, p, stem, ext, values) ==
    LET k == FileKey(Resolve(p, w.cwd), stem, ext)
    IN  IF ~w.ok THEN w
        ELSE IF k \notin DOMAIN w.files THEN Raise(w)
        ELSE IF ~FmtOK(w.files[k], values) THEN Raise(w)
        ELSE Log([w EXCEPT !.files = PutFile(@, k, Fmt(w.files[k], values))],
                 Event("fill", k.dir, stem, ext, TRUE))

os_remove(w, p, stem, ext) ==
    LET k == FileKey(Resolve(p, w.cwd), stem, ext)
    IN  IF ~w.ok THEN w
        ELSE IF k \notin DOMAIN w.files THEN Raise(w)
        ELSE Log([w EXCEPT !.files = DropFile(@, k)],
                 Event("remove", k.dir, stem, ext, TRUE))

\* os.rename of a file; the destination is replaced when it exists
os_rename(w, p, stem, ext, q, stem2, ext2) ==
    LET k == FileKey(Resolve(p, w.cwd), stem, ext)
        k2 == FileKey(Resolve(q, w.cwd), stem2, ext2)
    IN  IF ~w.ok THEN w
        ELSE IF k \notin DOMAIN w.files \/ k2.dir \notin w.dirs THEN Raise(w)
        ELSE Log([w EXCEPT !.files =
                      IF k = k2 THEN @ ELSE PutFile(DropFile(@, k), k2, @[k])],
                 [Event("rename", k.dir, stem, ext, TRUE) EXCEPT !.to = ext2])

Rebase(d, from, to) == to \o SubSeq(d, Len(from) + 1, Len(d))

\* os.rename of a directory
os_rename_dir(w, p, q) ==
    LET d == Resolve(p, w.cwd)
        d2 == Resolve(q, w.cwd)
        Move(k) == IF IsPrefix(d, k.dir)
                   THEN FileKey(Rebase(k.dir, d, d2), k.stem, k.ext) ELSE k
        moved == {Move(k) : k \in DOMAIN w.files}
        Src(k2) == CHOOSE k \in DOMAIN w.files : Move(k) = k2
    IN  IF ~w.ok THEN w
        ELSE IF d \notin w.dirs \/ Parent(d2) \notin w.dirs THEN Raise(w)
        ELSE IF d = d2 THEN Log(w, Event("rename", d, "", "", TRUE))
        ELSE IF d2 \in w.dirs THEN Raise(w)
        ELSE Log([w EXCEPT
                    !.files = [k2 \in moved |-> w.files[Src(k2)]],
                    !.dirs = {IF IsPrefix(d, x) THEN Rebase(x, d, d2) ELSE x : x \in @}],
                 Event("rename", d, "", "", TRUE))

\* shutil.rmtree
rmtree(w, p) ==
    LET d == Resolve(p, w.cwd)
        keep == {k \in DOMAIN w.files : ~IsPrefix(d, k.dir)}
    IN  IF ~w.ok THEN w
        ELSE IF d \notin w.dirs THEN Raise(w)
        ELSE Log([w EXCEPT !.files = [k \in keep |-> w.files[k]],
                           !.dirs = {x \in @ : ~IsPrefix(d, x)}],
                 Event("rmtree", d, "", "", TRUE))

\* os.mkdir
os_mkdir(w, p) ==
    LET d == Resolve(p, w.cwd)
    IN  IF ~w.ok THEN w
        ELSE IF d \in w.dirs \/ Parent(d) \notin w.dirs THEN Raise(w)
        ELSE Log([w EXCEPT !.dirs = @ \cup {d}], Event("mkdir", d, "", "", TRUE))

\* os.makedirs: the missing ancestors are created too
os_makedirs(w, p) ==
    LET d == Resolve(p, w.cwd)
    IN  IF ~w.ok THEN w
        ELSE IF d \in w.dirs THEN Raise(w)
        ELSE Log([w EXCEPT !.dirs = @ \cup {SubSeq(d, 1, n) : n \in 0..Len(d)}],
                 Event("mkdir", d, "", "", TRUE))

\* os.chdir
os_chdir(w, p) ==
    LET d == Resolve(p, w.cwd)
    IN  IF ~w.ok THEN w
        ELSE IF d \notin w.dirs THEN Raise(w)
        ELSE [w EXCEPT !.cwd = d]

\* os.system: the command runs in the working directory, its exit status is
\* returned and dropped by every caller
os_system(w, cmd, succeeded) ==
    IF ~w.ok THEN w ELSE Log(w, Event(cmd, w.cwd, "", "", succeeded))

-----------------------------------------------------------------------------
(* Fragments and fixed texts of create_project.py.                         *)

_firebase_requirements ==
    <<"kivy==2.1.0", "\n", "kivymd==1.0.0", "\n", "multitasking", "\n",
      "firebase", "\n", "firebase-admin", "\n", "python_jwt", "\n", "gcloud", "\n",
      "sseclient", "\n", "pycryptodome==3.4.3", "\n", "requests_toolbelt", "\n">>

_without_firebase_requirements ==
    <<"kivy==2.1.0", "\n", "kivymd==1.0.0", "\n">>

\* the literal stretches between two placeholders are one token each
_hot_reload_main ==
    <<"\n", "\"\"\" Script for managing hot reloading of the project. \"\"\"", "\n",
      "import importlib ... from kivy.core.window import Window", "%s", "\n",
      "Window.top = 0 ... from kivymd.tools.hotreload.app import MDApp", "\n",
      "%s", "%s", "\n", "\n",
      "class ", "%s", "(MDApp):", "\n",
      "    KV_FILES = { os.path.join( os.getcwd(), \"View\", \"", "%s", "\",", "\n",
      "            \"", "%s", ".kv\", ), }", "%s", "\n",
      "    def build_app(self) -> ScreenManager: ... self.manager_screens = ScreenManager()",
      "%s", "%s", "\n",
      "        Window.bind(on_key_down=self.on_keyboard_down) ...", "\n",
      "            model = screens[name_screen][\"model\"](", "%s", ")", "\n",
      "            controller = ... return self.manager_screens", "\n",
      "    def on_keyboard_down(...) ... self.rebuild()", "%s", "%s", "\n", "\n", "\n",
      "%s", "().run()", "\n",
      "# After you finish the project, remove the above code and uncomment the below",
      "\n", "# code to test the application normally without hot reloading.", "\n">>

If(c, t) == IF c THEN t ELSE <<>>

UsesLocalization(a) == a.use_localization = "yes"

UsesDatabase(a) == a.name_database # "no"

\* the Translation(...) fragment; its own "%s" is filled with the project name
\* before the fragment is handed to replace_in_file
TranslationFragment(a) ==
    Fmt(<<"\n", "        self.translation = Translation(", "\n",
          "            self.lang, \"", "%s", "\", f\"{self.directory}/data/locales\"",
          "\n", "        )">>,
        <<<<project_name(a)>>>>)

\* the tuple of create_main with the DataBase import given unconditionally
CreateMainValuesAlwaysImport(a) ==
    <<If(UsesLocalization(a), <<"\n", "from kivy.properties import StringProperty">>),
      If(UsesLocalization(a), <<"\n", "from libs.translation import Translation">>),
      <<"from Model.database import DataBase", "\n">>,
      <<project_name(a)>>,
      If(UsesLocalization(a), <<"\n", "    lang = StringProperty(\"en\")", "\n">>),
      If(UsesLocalization(a), TranslationFragment(a)),
      If(UsesDatabase(a), <<"self.database = DataBase()", "\n">>),
      If(UsesDatabase(a), <<"self.database">>),
      If(UsesLocalization(a),
         <<"\n", "    def on_lang(self, instance_app, lang_value: str) -> None:", "\n",
           "        self.translation.switch_lang(lang_value)", "\n">>),
      If(UsesLocalization(a),
         <<"\n", "    def switch_lang(self) -> None:", "\n",
           "        \"\"\"Switch lang.\"\"\"", "\n", "\n",
           "        self.lang = \"ru\" if self.lang == \"en\" else \"en\"", "\n">>),
      <<project_name(a)>> >>

\* the tuple create_main passes to replace_in_file
CreateMainValues(a) ==
    <<If(UsesLocalization(a), <<"\n", "from kivy.properties import StringProperty">>),
      If(UsesLocalization(a), <<"\n", "from libs.translation import Translation">>),
      If(UsesDatabase(a), <<"from Model.database import DataBase", "\n">>),
      <<project_name(a)>>,
      If(UsesLocalization(a), <<"\n", "    lang = StringProperty(\"en\")", "\n">>),
      If(UsesLocalization(a), TranslationFragment(a)),
      If(UsesDatabase(a), <<"self.database = DataBase()", "\n">>),
      If(UsesDatabase(a), <<"self.database">>),
      If(UsesLocalization(a),
         <<"\n", "    def on_lang(self, instance_app, lang_value: str) -> None:", "\n",
           "        self.translation.switch_lang(lang_value)", "\n">>),
      If(UsesLocalization(a),
         <<"\n", "    def switch_lang(self) -> None:", "\n",
           "        \"\"\"Switch lang.\"\"\"", "\n", "\n",
           "        self.lang = \"ru\" if self.lang == \"en\" else \"en\"", "\n">>),
      <<project_name(a)>> >>

\* the tuple of create_main_with_hotreload without its last value
HotReloadValuesShort(a) ==
    <<If(UsesLocalization(a), <<"\n", "from kivy.properties import StringProperty">>),
      If(UsesDatabase(a), <<"\n", "from Model.database import DataBase">>),
      If(UsesLocalization(a), <<"\n", "from libs.translation import Translation", "\n">>),
      <<project_name(a)>>,
      <<name_screen(a)>>,
      <<module_name(a)>>,
      If(UsesLocalization(a), <<"\n", "    lang = StringProperty(\"en\")", "\n">>),
      If(UsesDatabase(a), <<"\n", "        self.base = DataBase()", "\n">>),
      If(UsesLocalization(a), TranslationFragment(a)),
      If(UsesDatabase(a), <<"self.database">>),
      If(UsesLocalization(a),
         <<"\n", "\n", "    def on_lang(self, instance_app, lang_value: str) -> None:",
           "\n", "        self.translation.switch_lang(lang_value)", "\n">>),
      If(UsesLocalization(a),
         <<"\n", "    def switch_lang(self) -> None:", "\n",
           "        \"\"\"Switch lang.\"\"\"", "\n", "\n",
           "        self.lang = \"ru\" if self.lang == \"en\" else \"en\"">>) >>

\* the tuple create_main_with_hotreload passes to replace_in_file
HotReloadValues(a) ==
    <<If(UsesLocalization(a), <<"\n", "from kivy.properties import StringProperty">>),
      If(UsesDatabase(a), <<"\n", "from Model.database import DataBase">>),
      If(UsesLocalization(a), <<"\n", "from libs.translation import Translation", "\n">>),
      <<project_name(a)>>,
      <<name_screen(a)>>,
      <<module_name(a)>>,
      If(UsesLocalization(a), <<"\n", "    lang = StringProperty(\"en\")", "\n">>),
      If(UsesDatabase(a), <<"\n", "        self.base = DataBase()", "\n">>),
      If(UsesLocalization(a), TranslationFragment(a)),
      If(UsesDatabase(a), <<"self.database">>),
      If(UsesLocalization(a),
         <<"\n", "\n", "    def on_lang(self, instance_app, lang_value: str) -> None:",
           "\n", "        self.translation.switch_lang(lang_value)", "\n">>),
      If(UsesLocalization(a),
         <<"\n", "    def switch_lang(self) -> None:", "\n",
           "        \"\"\"Switch lang.\"\"\"", "\n", "\n",
           "        self.lang = \"ru\" if self.lang == \"en\" else \"en\"">>),
      <<project_name(a)>> >>

\* str.format with named fields: the template followed by the values given
database_model(a) ==
    <<"_database_model", name_screen(a), module_name(a),
      "\"", ToStr(UnderscoreToSpace(Spell[module_name(a)])), "\"">>

without_database_model(a) ==
    <<"_without_database_model", module_name(a), name_screen(a)>>

name_view(a) ==
    IF a.use_hotreload = "yes"
    THEN <<"View.", name_screen(a), ".", module_name(a), ".", name_screen(a), "View">>
    ELSE <<name_screen(a), "View">>

database_controller(a) ==
    <<(IF UsesDatabase(a) THEN "_database_controller"
                          ELSE "_without_database_controller"),
      name_screen(a), module_name(a),
      (IF a.use_hotreload = "yes" THEN "import importlib ... importlib.reload(View)"
                                  ELSE "from View import View")>>
    \o name_view(a)

\* the four phrases of the login screen and the translations
\* localization_po_file writes (the Cyrillic texts are written in Latin here)
Phrases == <<"To log in, enter your personal data:", "Login", "Password", "LOGIN">>

MsgId(i) ==
    <<"msgid \"To log in, enter your personal data:\"", "msgid \"Login\"",
      "msgid \"Password\"", "msgid \"LOGIN\"">>[i]

MsgStrRu(i) ==
    <<"msgstr \"Dlya vhoda vvedite svoi lichnye dannye\"", "msgstr \"Login(ru)\"",
      "msgstr \"Parol\"", "msgstr \"LOGIN(ru)\"">>[i]

-----------------------------------------------------------------------------
(* The template tree kivymd/tools/patterns/MVC that copytree copies.  Its  *)
(* files are the ones create_project.py opens, renames or removes; every   *)
(* template text has as many placeholders as the code supplies values.     *)

\* a template text with n placeholders
TemplateText(tag, n) == [i \in 1..(2 * n + 1) |-> IF i % 2 = 1 THEN tag ELSE "%s"]

\* main.py_tmp: the plain entry point, eleven placeholders
MainTemplate ==
    <<"\"\"\" The entry point to the application. \"\"\"", "\n",
      "%s", "\n",
      "from kivy.uix.screenmanager import ScreenManager", "%s", "\n", "\n",
      "from kivymd.app import MDApp", "\n", "\n",
      "from View.screens import screens", "\n",
      "%s", "\n", "\n",
      "class ", "%s", "(MDApp):", "%s", "\n",
      "    def __init__(self, **kwargs):", "\n",
      "        self.manager_screens = ScreenManager()", "%s", "\n",
      "        ", "%s", "\n",
      "    def build(self) -> ScreenManager:", "\n",
      "            model = screens[name_screen][\"model\"](", "%s", ")", "\n",
      "%s", "%s", "\n", "\n",
      "%s", "().run()", "\n">>

\* data/locales/po/ru.po as shipped: a header, no entries
RuPoTemplate == <<"# Russian translations", "\n">>

TemplateFiles ==
    LET K(d, stem, ext) == FileKey(d, stem, ext)
    IN  (K(<<>>, "main", ".py_tmp") :> MainTemplate)
     @@ (K(<<>>, "Makefile", "") :> TemplateText("Makefile", 6))
     @@ (K(<<>>, "messages", ".pot") :> <<"messages.pot">>)
     @@ (K(<<"libs">>, "translation", ".py") :> <<"class Translation">>)
     @@ (K(<<"data", "locales", "po">>, "ru", ".po") :> RuPoTemplate)
     @@ (K(<<"Model">>, "base_model", ".py") :> <<"class BaseScreenModel">>)
     @@ (K(<<"Model">>, "database_firebase", ".py") :> <<"class DataBase", "Firebase">>)
     @@ (K(<<"Model">>, "database_restdb", ".py") :> <<"class DataBase", "RestDB">>)
     @@ (K(<<"Model">>, "first_screen", ".py_tmp") :> TemplateText("model", 1))
     @@ (K(<<"Controller">>, "first_screen", ".py_tmp") :> TemplateText("controller", 2))
     @@ (K(<<"View">>, "screens", ".py_tmp") :> TemplateText("screens", 7))
     @@ (K(<<"View">>, "base_screen", ".py_tmp") :> TemplateText("base_screen", 6))
     @@ (K(<<"View", "FirstScreen">>, "first_screen", ".kv") :> TemplateText("kv", 7))
     @@ (K(<<"View", "FirstScreen">>, "first_screen", ".py_tmp") :> TemplateText("view", 4))

TemplateDirs ==
    {<<>>, <<"libs">>, <<"data">>, <<"data", "locales">>, <<"data", "locales", "po">>,
     <<"Model">>, <<"Controller">>, <<"View">>, <<"View", "FirstScreen">>, <<"Utility">>}

\* kivymd/tools/patterns/__init__.py, the file move_init copies
InitFileText == <<"__init__">>

\* shutil.copytree(pattern directory, dst)
copytree(w, pattern, dst) ==
    LET d == Resolve(dst, w.cwd)
        new == {FileKey(d \o k.dir, k.stem, k.ext) : k \in DOMAIN TemplateFiles}
        Src(k) == FileKey(SubSeq(k.dir, Len(d) + 1, Len(k.dir)), k.stem, k.ext)
    IN  IF ~w.ok THEN w
        ELSE IF pattern \notin available_patterns \/ d \in w.dirs THEN Raise(w)
        ELSE Log([w EXCEPT
                    !.dirs = @ \cup {SubSeq(d, 1, n) : n \in 0..Len(d)}
                               \cup {d \o t : t \in TemplateDirs},
                    !.files = [k \in DOMAIN @ \cup new |->
                                 IF k \in new THEN TemplateFiles[Src(k)] ELSE @[k]]],
                 Event("copytree", d, "", "", TRUE))

\* shutil.copy(path_to_init_file, destination)
copy_init(w, p, stem, ext) ==
    LET k == FileKey(Resolve(p, w.cwd), stem, ext)
    IN  IF ~w.ok THEN w
        ELSE IF k.dir \notin w.dirs THEN Raise(w)
        ELSE Log([w EXCEPT !.files = PutFile(@, k, InitFileText)],
                 Event("copy", k.dir, stem, ext, TRUE))

-----------------------------------------------------------------------------
(* The helpers of create_project.py, as functions from worlds to worlds.   *)

create_main(w, a) ==
    replace_in_file(w, path_to_project(a), "main", ".py_tmp", CreateMainValues(a))

create_model(w, a) ==
    LET p == Join(path_to_project(a), <<"Model">>)
        w1 == IF UsesDatabase(a)
              THEN replace_in_file(w, p, "first_screen", ".py_tmp", <<database_model(a)>>)
              ELSE os_remove(
                     os_remove(
                       replace_in_file(w, p, "first_screen", ".py_tmp",
                                       <<without_database_model(a)>>),
                       p, "database_firebase", ".py"),
                     p, "database_restdb", ".py")
    IN  os_rename(w1, p, "first_screen", ".py_tmp", p, module_name(a), ".py_tmp")

\* create_controller that gives the controller its real extension itself
create_controller_real_extension(w, a) ==
    LET p == Join(path_to_project(a), <<"Controller">>)
        w1 == replace_in_file(w, p, "first_screen", ".py_tmp",
                              <<database_controller(a), name_view(a)>>)
    IN  os_rename(w1, p, "first_screen", ".py_tmp", p, module_name(a), ".py")

create_controller(w, a) ==
    LET p == Join(path_to_project(a), <<"Controller">>)
        w1 == replace_in_file(w, p, "first_screen", ".py_tmp",
                              <<database_controller(a), name_view(a)>>)
    IN  os_rename(w1, p, "first_screen", ".py_tmp", p, module_name(a), ".py_tmp")

create_view(w, a) ==
    LET v == Join(path_to_project(a), <<"View">>)
        f == Join(v, <<"FirstScreen">>)
        loc == UsesLocalization(a)
        ns == name_screen(a)
        mn == module_name(a)
        w1 == replace_in_file(w, v, "screens", ".py_tmp",
                  << <<mn>>, <<ns, "Model">>, <<mn>>, <<ns, "Controller">>,
                     <<"\"", ToStr(UnderscoreToSpace(Spell[mn])), "\"">>,
                     <<ns, "Model">>, <<ns, "Controller">> >>)
        w2 == replace_in_file(w1, f, "first_screen", ".kv",
                  << <<ns, "View">>, <<ns>>,
                     <<IF loc THEN "app.switch_lang()" ELSE "x">>,
                     If(loc, <<"app.translation._(">>) \o <<"\"", Phrases[1], "\"">>
                        \o If(loc, <<")">>),
                     If(loc, <<"app.translation._(">>) \o <<"\"", Phrases[2], "\"">>
                        \o If(loc, <<")">>),
                     If(loc, <<"app.translation._(">>) \o <<"\"", Phrases[3], "\"">>
                        \o If(loc, <<")">>),
                     If(loc, <<"app.translation._(">>) \o <<"\"", Phrases[4], "\"">>
                        \o If(loc, <<")">>) >>)
        w3 == replace_in_file(w2, f, "first_screen", ".py_tmp",
                  << <<IF UsesDatabase(a) THEN "_database_view_import"
                                          ELSE "_without_database_view_import">>,
                     <<ns, "View">>,
                     If(UsesDatabase(a), <<"_database_view_methods">>),
                     If(UsesDatabase(a), <<"_database_view_model_is_changed_method">>) >>)
        w4 == replace_in_file(w3, v, "base_screen", ".py_tmp",
                  << <<mn>>, <<ns, "Model">>, <<mn>>, <<ns, "Controller">>,
                     <<mn>>, <<ns, "Model">> >>)
        w5 == os_rename(w4, v, "base_screen", ".py_tmp", v, "base_screen", ".py")
        w6 == os_rename(w5, f, "first_screen", ".kv", f, mn, ".kv")
        w7 == os_rename(w6, f, "first_screen", ".py_tmp", f, mn, ".py_tmp")
    IN  os_rename_dir(w7, f, Join(v, <<ns>>))

\* create_requirements that tests for the firebase backend only
create_requirements_firebase_only(w, a) ==
    write_file(w, path_to_project(a), "requirements", ".txt",
               IF a.name_database = "firebase" THEN _firebase_requirements
                                               ELSE _without_firebase_requirements)

create_requirements(w, a) ==
    write_file(w, path_to_project(a), "requirements", ".txt",
               IF UsesDatabase(a) THEN _firebase_requirements
                                  ELSE _without_firebase_requirements)

\* rename_ext_py_tmp_to_py that lists the project directory without walking
\* into its subdirectories
rename_ext_top_level_only(w, a) ==
    LET root == Resolve(path_to_project(a), w.cwd)
        Hit(k) == k.dir = root /\ k.ext = ".py_tmp"
        To(k) == IF Hit(k) THEN FileKey(k.dir, k.stem, ".py") ELSE k
        olds == DOMAIN w.files
        Src(k2) == IF \E k \in olds : Hit(k) /\ To(k) = k2
                   THEN CHOOSE k \in olds : Hit(k) /\ To(k) = k2
                   ELSE k2
    IN  IF ~w.ok THEN w
        ELSE Log([w EXCEPT !.files = [k2 \in {To(k) : k \in olds} |-> w.files[Src(k2)]]],
                 Event("rename_ext", root, "", "", TRUE))

\* os.walk(path_to_project): every file below the project directory whose
\* extension is .py_tmp is renamed to .py
rename_ext_py_tmp_to_py(w, a) ==
    LET root == Resolve(path_to_project(a), w.cwd)
        Hit(k) == IsPrefix(root, k.dir) /\ k.ext = ".py_tmp"
        To(k) == IF Hit(k) THEN FileKey(k.dir, k.stem, ".py") ELSE k
        olds == DOMAIN w.files
        news == {To(k) : k \in olds}
        Src(k2) == IF \E k \in olds : Hit(k) /\ To(k) = k2
                   THEN CHOOSE k \in olds : Hit(k) /\ To(k) = k2
                   ELSE k2
    IN  IF ~w.ok THEN w
        ELSE Log([w EXCEPT !.files = [k2 \in news |-> w.files[Src(k2)]]],
                 Event("rename_ext", root, "", "", TRUE))

\* move_init with the directory name Utility misspelt
move_init_misspelt(w, a) ==
    LET p == path_to_project(a)
        s == Join(p, <<"View", name_screen(a)>>)
        c == Join(s, <<"components">>)
        w1 == copy_init(w, Join(p, <<"Controller">>), "__init__", ".py")
        w2 == copy_init(w1, Join(p, <<"Model">>), "__init__", ".py")
        w3 == copy_init(w2, Join(p, <<"Utilities">>), "__init__", ".py")
        w4 == copy_init(w3, Join(p, <<"View">>), "__init__", ".py")
        w5 == copy_init(w4, s, "__init__", ".py")
        w6 == os_mkdir(w5, c)
    IN  copy_init(w6, c, "__init__", ".py")

move_init(w, a) ==
    LET p == path_to_project(a)
        s == Join(p, <<"View", name_screen(a)>>)
        c == Join(s, <<"components">>)
        w1 == copy_init(w, Join(p, <<"Controller">>), "__init__", ".py")
        w2 == copy_init(w1, Join(p, <<"Model">>), "__init__", ".py")
        w3 == copy_init(w2, Join(p, <<"Utility">>), "__init__", ".py")
        w4 == copy_init(w3, Join(p, <<"View">>), "__init__", ".py")
        w5 == copy_init(w4, s, "__init__", ".py")
        w6 == os_mkdir(w5, c)
    IN  copy_init(w6, c, "__init__", ".py")

\* databases = {"firebase": "restdb", "restdb": "firebase"}
databases == [name \in {"firebase", "restdb"} |->
                 IF name = "firebase" THEN "restdb" ELSE "firebase"]

\* f"database_{name}"
DatabaseStem(name) == IF name = "firebase" THEN "database_firebase" ELSE "database_restdb"

\* check_databases that removes the chosen backend and keeps the other one
check_databases_swapped(w, a) ==
    LET p == Join(path_to_project(a), <<"Model">>)
    IN  IF ~w.ok THEN w
        ELSE IF a.name_database \notin DOMAIN databases THEN Raise(w)
        ELSE os_rename(os_remove(w, p, DatabaseStem(a.name_database), ".py"),
                       p, DatabaseStem(databases[a.name_database]), ".py",
                       p, "database", ".py")

\* databases[name_database] raises KeyError for any other name
check_databases(w, a) ==
    LET p == Join(path_to_project(a), <<"Model">>)
    IN  IF ~w.ok THEN w
        ELSE IF a.name_database \notin DOMAIN databases THEN Raise(w)
        ELSE os_rename(os_remove(w, p, DatabaseStem(databases[a.name_database]), ".py"),
                       p, DatabaseStem(a.name_database), ".py", p, "database", ".py")

create_main_with_hotreload(w, a) ==
    LET p == path_to_project(a)
        k == FileKey(Resolve(p, w.cwd), "main", ".py")
        main_code == CommentOut(w.files[k])
        w1 == IF ~w.ok THEN w
              ELSE IF k \notin DOMAIN w.files THEN Raise(w)
              ELSE write_file(w, p, "main", ".py", _hot_reload_main \o <<"\n">> \o main_code)
    IN  replace_in_file(w1, p, "main", ".py", HotReloadValues(a))

-----------------------------------------------------------------------------
(* Localization and provisioning.  The external commands are run through   *)
(* os.system; what a command does when it succeeds is the work of make,    *)
(* gettext, virtualenv and pip.                                            *)

\* kivy.platform of the machine the tool runs on
platform == "linux"

\* str.replace(old, new) on token sequences
RECURSIVE ReplaceAll(_, _, _)
ReplaceAll(t, old, new) ==
    IF Len(t) < Len(old) \/ old = <<>> THEN t
    ELSE IF SubSeq(t, 1, Len(old)) = old
         THEN new \o ReplaceAll(SubSeq(t, Len(old) + 1, Len(t)), old, new)
         ELSE <<Head(t)>> \o ReplaceAll(Tail(t), old, new)

PoDir(base) == base \o <<"data", "locales", "po">>

\* make po, run in directory d: xgettext extracts the phrases marked for
\* translation and msgmerge adds them, untranslated, to ru.po
make_po(w, succeeded) ==
    LET d == w.cwd
        k == FileKey(PoDir(d), "ru", ".po")
        can == FileKey(d, "Makefile", "") \in DOMAIN w.files /\ k \in DOMAIN w.files
        Entries[i \in 0..Len(Phrases)] ==
            IF i = 0 THEN <<>>
            ELSE Entries[i - 1] \o <<MsgId(i), "\n", "msgstr \"\"", "\n", "\n">>
        w1 == os_system(w, "make po", succeeded /\ can)
    IN  IF ~w.ok \/ ~(succeeded /\ can) THEN w1
        ELSE [w1 EXCEPT !.files =
                 PutFile(PutFile(@, k, @[k] \o Entries[Len(Phrases)]),
                         FileKey(d, "messages", ".pot"), Entries[Len(Phrases)])]

\* make mo, run in directory d: msgfmt compiles ru.po into the catalog
\* data/locales/ru/LC_MESSAGES/<project>.mo
make_mo(w, a, succeeded) ==
    LET d == w.cwd
        k == FileKey(PoDir(d), "ru", ".po")
        can == FileKey(d, "Makefile", "") \in DOMAIN w.files /\ k \in DOMAIN w.files
        m == d \o <<"data", "locales", "ru", "LC_MESSAGES">>
        w1 == os_system(w, "make mo", succeeded /\ can)
    IN  IF ~w.ok \/ ~(succeeded /\ can) THEN w1
        ELSE [w1 EXCEPT
                !.dirs = @ \cup {SubSeq(m, 1, n) : n \in 0..Len(m)},
                !.files = PutFile(@, FileKey(m, project_name(a), ".mo"),
                                  <<"msgfmt">> \o @[k])]

\* create_makefile that runs make po before it fills the Makefile
create_makefile_build_first(w, a, succeeded) ==
    LET p == path_to_project(a)
    IN  replace_in_file(make_po(os_chdir(w, p), succeeded), p, "Makefile", "",
            << <<name_screen(a)>>, <<module_name(a)>>, <<name_screen(a)>>,
               <<module_name(a)>>, <<project_name(a)>>, <<project_name(a)>> >>)

create_makefile(w, a, succeeded) ==
    LET p == path_to_project(a)
        w1 == replace_in_file(w, p, "Makefile", "",
                  << <<name_screen(a)>>, <<module_name(a)>>, <<name_screen(a)>>,
                     <<module_name(a)>>, <<project_name(a)>>, <<project_name(a)>> >>)
    IN  make_po(os_chdir(w1, p), succeeded)

\* localization_po_file without its last .replace call
localization_po_file_three_phrases(w, a) ==
    LET d == Resolve(Join(path_to_project(a), <<"data", "locales", "po">>), w.cwd)
        k == FileKey(d, "ru", ".po")
        Patch[i \in 0..3] ==
            IF i = 0 THEN w.files[k]
            ELSE ReplaceAll(Patch[i - 1],
                            <<MsgId(i), "\n", "msgstr \"\"">>,
                            <<MsgId(i), "\n", MsgStrRu(i)>>)
    IN  IF ~w.ok THEN w
        ELSE IF k \notin DOMAIN w.files THEN Raise(w)
        ELSE Log([w EXCEPT !.files = PutFile(@, k, Patch[3])],
                 Event("patch", d, "ru", ".po", TRUE))

localization_po_file(w, a) ==
    LET d == Resolve(Join(path_to_project(a), <<"data", "locales", "po">>), w.cwd)
        k == FileKey(d, "ru", ".po")
        Patch[i \in 0..Len(Phrases)] ==
            IF i = 0 THEN w.files[k]
            ELSE ReplaceAll(Patch[i - 1],
                            <<MsgId(i), "\n", "msgstr \"\"">>,
                            <<MsgId(i), "\n", MsgStrRu(i)>>)
    IN  IF ~w.ok THEN w
        ELSE IF k \notin DOMAIN w.files THEN Raise(w)
        ELSE Log([w EXCEPT !.files = PutFile(@, k, Patch[Len(Phrases)])],
                 Event("patch", d, "ru", ".po", TRUE))

create_mofile(w, a, succeeded) ==
    make_mo(os_chdir(w, path_to_project(a)), a, succeeded)

\* the else branch of "if use_localization == 'yes'" in main
remove_localization(w, a) ==
    LET p == path_to_project(a)
    IN  rmtree(os_remove(os_remove(w, p, "messages", ".pot"),
                         Join(p, <<"libs">>), "translation", ".py"),
               Join(p, <<"data">>))

\* virtualenv -p python <path>: creates <path>/bin/python3
virtualenv(w, p, succeeded) ==
    LET b == Resolve(Join(p, <<"bin">>), w.cwd)
        w1 == os_system(w, "virtualenv", succeeded)
    IN  IF ~w.ok \/ ~succeeded THEN w1
        ELSE [w1 EXCEPT !.dirs = @ \cup {SubSeq(b, 1, n) : n \in 0..Len(b)},
                        !.files = PutFile(@, FileKey(b, "python3", ""), <<"python3">>)]

\* create_virtual_environment that installs KivyMD before it creates the
\* environment
create_virtual_environment_install_first(w, a, ok1, ok2) ==
    virtualenv(os_system(os_system(w, "pip install KivyMD master.zip", ok1),
                         "pip install virtualenv", ok1),
               Join(path_to_project(a), <<"venv">>), ok2)

create_virtual_environment(w, a, ok1, ok2) ==
    virtualenv(os_system(w, "pip install virtualenv", ok1),
               Join(path_to_project(a), <<"venv">>), ok2)

\* os.system(f"{python} -m pip ..."): fails when the interpreter is missing
pip(w, a, cmd, succeeded) ==
    LET python == FileKey(Resolve(Join(path_to_project(a), <<"venv", "bin">>), w.cwd),
                          "python3", "")
    IN  os_system(w, cmd, succeeded /\ python \in DOMAIN w.files)

install_requirements(w, a, oks) ==
    LET kivy == IF a.kivy_version = "master"
                THEN (IF platform = "macosx" THEN "pip install kivy[base] master.zip"
                                             ELSE "pip install kivy master.zip")
                ELSE IF a.kivy_version = "stable" THEN "pip install kivy"
                ELSE "pip install kivy==version"
        w1 == pip(w, a, kivy, oks[1])
        w2 == pip(w1, a, "pip install KivyMD master.zip", oks[2])
        w3 == pip(w2, a, "pip install watchdog", oks[3])
        w4 == IF a.name_database = "firebase"
              THEN pip(w3, a, "pip install firebase libraries", oks[4])
              ELSE w3
    IN  pip(w4, a, "pip list", oks[5])

-----------------------------------------------------------------------------
(* The command lines and the machine the tool is started on.               *)

\* the working directory the tool is started in
OrigCwd == <<"home">>

\* the directory argument: /home/work, or work relative to /home
Directories ==
    {[abs |-> TRUE, comps |-> <<"home", "work">>], [abs |-> FALSE, comps |-> <<"work">>]}

ScreenNameInputs ==
    {"LoginScreen", "UserLoginScreen", "Screen", "Login", "mainScreen", "Main Screen"}

ArgSpace ==
    [pattern : {"MVC", "MVP"},
     directory : Directories,
     name : {"My App"},
     python_version : {"python3.10", "python2"},
     kivy_version : {"2.1.0", "master"},
     name_screen : ScreenNameInputs,
     name_database : {"no", "firebase", "restdb", "sqlite"},
     use_hotreload : {"no", "yes"},
     use_localization : {"no", "yes"}]

NoFiles == [k \in {} |-> <<>>]

World == [files |-> files, dirs |-> dirs, cwd |-> cwd, ok |-> TRUE, ev |-> events]

\* os.path.exists replaced by os.path.isfile
PathIsFile(p) ==
    \E k \in DOMAIN files : k.dir \o <<k.stem>> = Resolve(p, cwd) /\ k.ext = ""

\* os.path.exists(path)
PathExists(p) ==
    \/ Resolve(p, cwd) \in dirs
    \/ \E k \in DOMAIN files : k.dir \o <<k.stem>> = Resolve(p, cwd) /\ k.ext = ""

Init ==
    /\ args \in ArgSpace
    /\ \E existing \in BOOLEAN :
          /\ dirs = {<<>>, <<"home">>, <<"home", "work">>}
                    \cup (IF existing THEN {<<"home", "work", "MyApp">>} ELSE {})
          /\ files = IF existing
                     THEN FileKey(<<"home", "work", "MyApp">>, "notes", ".txt") :> <<"mine">>
                     ELSE NoFiles
    /\ cwd = OrigCwd
    /\ pc = "python_version"
    /\ status = "running"
    /\ events = <<>>
    /\ message = ""
    /\ run = 1
    /\ prev = "none"
    /\ files0 = files
    /\ dirs0 = dirs

-----------------------------------------------------------------------------
(* main(): the argument checks.                                            *)

\* parser.error(text): prints the text and exits with status 2
ParserError(text) ==
    /\ status' = "error"
    /\ message' = text
    /\ UNCHANGED <<args, files, dirs, cwd, pc, events, run, prev, files0, dirs0>>

Goto(next) ==
    /\ pc' = next
    /\ UNCHANGED <<args, files, dirs, cwd, status, events, message, run, prev,
                   files0, dirs0>>

\* the version check that looks for the word "python" only
PythonVersionAnyPython(a) == Head(Spell[a.python_version]) = "p"

PythonVersionOK(a) == "3" \in Range(Spell[a.python_version])

\* the database check without the list of available databases
DatabaseNotChecked(a) == a.name_database = "no" \/ a.name_database # ""

DatabaseOK(a) == a.name_database = "no" \/ a.name_database \in available_databases

SuffixOK(a) == LastChars(name_screen_chars(a), 6) = Spell["Screen"]

CamelOK(a) == chek_camel_case_name_project(name_screen_chars(a)) # <<>>

PatternOK(a) == a.pattern \in available_patterns

CheckPythonVersion ==
    /\ status = "running" /\ pc = "python_version"
    /\ IF PythonVersionOK(args) THEN Goto("name_database")
       ELSE ParserError("Python must be at least version 3")

CheckDatabase ==
    /\ status = "running" /\ pc = "name_database"
    /\ IF DatabaseOK(args) THEN Goto("suffix")
       ELSE ParserError("The database name must be one of the list")

CheckSuffix ==
    /\ status = "running" /\ pc = "suffix"
    /\ IF SuffixOK(args) THEN Goto("camel_case")
       ELSE ParserError("Name of the screen must contain the word 'Screen' at the end")

CheckCamelCase ==
    /\ status = "running" /\ pc = "camel_case"
    /\ IF CamelOK(args) THEN Goto("pattern")
       ELSE ParserError("The name of the screen should be written in camel case style")

CheckPattern ==
    /\ status = "running" /\ pc = "pattern"
    /\ IF PatternOK(args) THEN Goto("exists")
       ELSE ParserError("There is no such pattern")

CheckExists ==
    /\ status = "running" /\ pc = "exists"
    /\ IF ~PathExists(path_to_project(args)) THEN Goto("copytree")
       ELSE ParserError("The project already exists")

-----------------------------------------------------------------------------
(* main(): the creation of the project.                                    *)

\* the statement reached next; an exception ends the run where it is raised
Commit(w, next) ==
    /\ files' = w.files
    /\ dirs' = w.dirs
    /\ cwd' = w.cwd
    /\ events' = w.ev
    /\ status' = IF ~w.ok THEN "crash" ELSE IF next = "done" THEN "ok" ELSE "running"
    /\ pc' = IF w.ok THEN next ELSE pc
    /\ message' = IF ~w.ok THEN "Traceback"
                  ELSE IF next = "done" THEN "Install requirements" ELSE message
    /\ UNCHANGED <<args, run, prev, files0, dirs0>>

AfterDatabases(a) == IF a.use_hotreload = "yes" THEN "hotreload" ELSE
                     IF a.use_localization = "yes" THEN "create_makefile"
                     ELSE "remove_localization"

AfterMoveInit(a) == IF a.name_database # "no" THEN "check_databases" ELSE AfterDatabases(a)

AfterHotreload(a) == IF a.use_localization = "yes" THEN "create_makefile"
                     ELSE "remove_localization"

CopyTree ==
    /\ status = "running" /\ pc = "copytree"
    /\ Commit(copytree(World, args.pattern, path_to_project(args)), "create_main")

CreateMain ==
    /\ status = "running" /\ pc = "create_main"
    /\ Commit(create_main(World, args), "create_model")

CreateModel ==
    /\ status = "running" /\ pc = "create_model"
    /\ Commit(create_model(World, args), "create_controller")

CreateController ==
    /\ status = "running" /\ pc = "create_controller"
    /\ Commit(create_controller(World, args), "create_view")

CreateView ==
    /\ status = "running" /\ pc = "create_view"
    /\ Commit(create_view(World, args), "create_requirements")

CreateRequirements ==
    /\ status = "running" /\ pc = "create_requirements"
    /\ Commit(create_requirements(World, args), "assets")

MakeAssets ==
    /\ status = "running" /\ pc = "assets"
    /\ Commit(os_mkdir(os_makedirs(World, Join(path_to_project(args), <<"assets", "images">>)),
                       Join(path_to_project(args), <<"assets", "fonts">>)),
              "rename_ext")

RenameExt ==
    /\ status = "running" /\ pc = "rename_ext"
    /\ Commit(rename_ext_py_tmp_to_py(World, args), "move_init")

MoveInit ==
    /\ status = "running" /\ pc = "move_init"
    /\ Commit(move_init(World, args), AfterMoveInit(args))

CheckDatabases ==
    /\ status = "running" /\ pc = "check_databases"
    /\ Commit(check_databases(World, args), AfterDatabases(args))

UseHotreload ==
    /\ status = "running" /\ pc = "hotreload"
    /\ Commit(append_file(create_main_with_hotreload(World, args),
                          path_to_project(args), "requirements", ".txt", <<"watchdog">>),
              AfterHotreload(args))

CreateMakefile ==
    /\ status = "running" /\ pc = "create_makefile"
    /\ \E succeeded \in BOOLEAN :
          Commit(create_makefile(World, args, succeeded), "po_file")

LocalizationPoFile ==
    /\ status = "running" /\ pc = "po_file"
    /\ Commit(localization_po_file(World, args), "create_mofile")

CreateMofile ==
    /\ status = "running" /\ pc = "create_mofile"
    /\ \E succeeded \in BOOLEAN :
          Commit(create_mofile(World, args, succeeded), "venv")

RemoveLocalization ==
    /\ status = "running" /\ pc = "remove_localization"
    /\ Commit(remove_localization(World, args), "venv")

CreateVirtualEnvironment ==
    /\ status = "running" /\ pc = "venv"
    /\ \E ok1 \in BOOLEAN, ok2 \in BOOLEAN :
          Commit(create_virtual_environment(World, args, ok1, ok2), "install")

InstallRequirements ==
    /\ status = "running" /\ pc = "install"
    /\ \E oks \in [1..5 -> BOOLEAN] :
          Commit(install_requirements(World, args, oks), "done")

\* the same command line is given again, in a new process
Reinvoke ==
    /\ status # "running"
    /\ run < MaxRuns
    /\ run' = run + 1
    /\ prev' = status
    /\ status' = "running"
    /\ pc' = "python_version"
    /\ cwd' = OrigCwd
    /\ events' = <<>>
    /\ message' = ""
    /\ files0' = files
    /\ dirs0' = dirs
    /\ UNCHANGED <<args, files, dirs>>

Next ==
    \/ CheckPythonVersion \/ CheckDatabase \/ CheckSuffix \/ CheckCamelCase
    \/ CheckPattern \/ CheckExists
    \/ CopyTree \/ CreateMain \/ CreateModel \/ CreateController \/ CreateView
    \/ CreateRequirements \/ MakeAssets \/ RenameExt \/ MoveInit \/ CheckDatabases
    \/ UseHotreload \/ CreateMakefile \/ LocalizationPoFile \/ CreateMofile
    \/ RemoveLocalization \/ CreateVirtualEnvironment \/ InstallRequirements
    \/ Reinvoke

Spec == Init /\ [][Next]_vars

-----------------------------------------------------------------------------
(* Properties.  What each command line of ArgSpace should lead to is       *)
(* written down input by input, not computed with the operators above.     *)

\* the positions of main() at which arguments are being checked
ValidationSteps ==
    {"python_version", "name_database", "suffix", "camel_case", "pattern", "exists"}

\* the project directory both directory arguments designate
ProjectRoot == <<"home", "work", "MyApp">>

\* one of the six conditions for a validation error holds of this invocation
ShouldBeRejected ==
    \/ args.pattern # "MVC"
    \/ args.python_version = "python2"
    \/ args.name_screen = "Login"
    \/ args.name_screen \in {"Screen", "mainScreen"}
    \/ args.name_database \notin {"no", "firebase", "restdb"}
    \/ ProjectRoot \in dirs0

Untouched == files = files0 /\ dirs = dirs0 /\ events = <<>>

CommandRan(cmd, ok) == \E i \in DOMAIN events : events[i].op = cmd /\ events[i].ok = ok

\* C1: while the arguments are being checked, and in a run that ended in a
\* validation error, nothing in the file system has changed and no command
\* has been run; whatever changes the file system or runs a command happens
\* in a run whose arguments passed all six checks.
C1_NoMutationBeforeValidation ==
    /\ (pc \in ValidationSteps \/ status = "error") => Untouched
    /\ ~Untouched => ~ShouldBeRejected

\* C1 witness: all checks but the last passed, the destination existed, the
\* run ended in the error and the existing directory is as it was.
C1_Witness ==
    /\ run = 1 /\ status = "error" /\ pc = "exists"
    /\ DOMAIN files0 # {} /\ files = files0

\* C2: an invocation that follows a successful one with the same command line
\* never gets past the destination check, can only end in the
\* "already exists" error, and changes nothing.
C2_SecondRunRejected ==
    (run >= 2 /\ prev = "ok") =>
        /\ pc \in ValidationSteps
        /\ status \in {"running", "error"}
        /\ status = "error" => (pc = "exists" /\ message = "The project already exists")
        /\ Untouched

\* C2 witness: the second invocation after a successful first one has ended.
C2_Witness == run = 2 /\ prev = "ok" /\ status = "error" /\ DOMAIN files # {}

\* C3 as stated: "LoginScreen" never passes the camel-case check, and
\* "UserLoginScreen" gives the module name user_login.
C3_AsStated ==
    /\ args.name_screen = "LoginScreen" =>
          pc \in {"python_version", "name_database", "suffix", "camel_case"}
    /\ (args.name_screen = "UserLoginScreen" /\ pc = "create_controller") =>
          FileKey(ProjectRoot \o <<"Model">>, "user_login", ".py_tmp") \in DOMAIN files

\* C3 amended: "LoginScreen" and "UserLoginScreen" both pass the screen name
\* checks, with the module names login_screen and user_login_screen (the
\* word Screen is one of the words); "Screen", a single capitalized word, is
\* rejected.
C3_ScreenNames ==
    /\ args.name_screen \in {"LoginScreen", "UserLoginScreen"} =>
          ~(status = "error" /\ pc \in {"suffix", "camel_case"})
    /\ args.name_screen = "Screen" =>
          pc \in {"python_version", "name_database", "suffix", "camel_case"}
    /\ (args.name_screen = "UserLoginScreen" /\ pc = "create_controller") =>
          FileKey(ProjectRoot \o <<"Model">>, "user_login_screen", ".py_tmp")
              \in DOMAIN files
    /\ (args.name_screen = "LoginScreen" /\ pc = "create_controller") =>
          FileKey(ProjectRoot \o <<"Model">>, "login_screen", ".py_tmp") \in DOMAIN files

\* C3 witness: the model of UserLoginScreen has been created under its module
\* name.
C3_Witness ==
    /\ args.name_screen = "UserLoginScreen" /\ pc = "create_controller"
    /\ status = "running"

\* C4: a run ends in a validation error only if one of the six conditions
\* holds, and gets past the checks, to the copy of the template, only if none
\* of them holds.
C4_ErrorExactlyWhenInvalid ==
    /\ status = "error" => ShouldBeRejected
    /\ pc \notin ValidationSteps => ~ShouldBeRejected
    /\ status = "error" => (pc \in ValidationSteps /\ message # "")

\* C4 witness: a screen name of one capitalized word has been refused.
C4_Witness ==
    /\ status = "error" /\ pc = "camel_case" /\ args.name_screen = "mainScreen"

InProject(k) == IsPrefix(ProjectRoot, k.dir)

ModelFile(stem) == FileKey(ProjectRoot \o <<"Model">>, stem, ".py")

MainFile == FileKey(ProjectRoot, "main", ".py")

\* C5: from the creation of the virtual environment to the end of the run, no
\* file of the generated tree has the extension .py_tmp.
C5_NoPlaceholderFiles ==
    pc \in {"venv", "install", "done"} =>
        \A k \in DOMAIN files : InProject(k) => k.ext # ".py_tmp"

\* C5 witness: the run is about to create the virtual environment, and the
\* view module of the screen, a template of a subdirectory, is there as .py.
C5_Witness ==
    /\ pc = "venv" /\ status = "running"
    /\ \E k \in DOMAIN files :
          /\ k.dir = ProjectRoot \o <<"View", "UserLoginScreen">>
          /\ k.stem = "user_login_screen" /\ k.ext = ".py"

\* C6: after a successful generation without a database none of
\* Model/database_firebase.py, Model/database_restdb.py and Model/database.py
\* exists; with a database, Model/database.py exists, holds the text of the
\* chosen backend's template, and the two backend files are gone.
C6_DatabaseModule ==
    status = "ok" =>
        /\ ModelFile("database_firebase") \notin DOMAIN files
        /\ ModelFile("database_restdb") \notin DOMAIN files
        /\ args.name_database = "no" => ModelFile("database") \notin DOMAIN files
        /\ args.name_database = "firebase" =>
              /\ ModelFile("database") \in DOMAIN files
              /\ files[ModelFile("database")] = <<"class DataBase", "Firebase">>
        /\ args.name_database = "restdb" =>
              /\ ModelFile("database") \in DOMAIN files
              /\ files[ModelFile("database")] = <<"class DataBase", "RestDB">>

\* C6 witness: a project with the restdb backend has been generated.
C6_Witness ==
    /\ status = "ok" /\ args.name_database = "restdb"
    /\ ModelFile("database") \in DOMAIN files

\* the plain entry point: main.py_tmp filled by create_main
PlainMain == Fmt(MainTemplate, CreateMainValues(args))

LineStarts(t) == {i \in DOMAIN t : i = 1 \/ t[i - 1] = "\n"}

\* t without the "# " at the start of its lines
Uncommented(t) ==
    Concat([i \in DOMAIN t |->
               IF i \in LineStarts(t) /\ t[i] = "# " THEN <<>> ELSE <<t[i]>>],
           1, Len(t))

\* C7: after a successful generation without hot reload, main.py is the
\* filled plain entry point and has no commented line; with hot reload it is
\* the filled hot-reload entry point, a line break, and the plain entry
\* point with "# " in front of every line and nothing else changed.
C7_EntryPoint ==
    status = "ok" =>
        LET main == files[MainFile]
            hot == Fmt(_hot_reload_main, HotReloadValues(args))
            rest == SubSeq(main, Len(hot) + 2, Len(main))
        IN  /\ MainFile \in DOMAIN files
            /\ args.use_hotreload # "yes" =>
                  /\ main = PlainMain
                  /\ \A i \in DOMAIN main : main[i] # "# "
            /\ args.use_hotreload = "yes" =>
                  /\ Len(main) > Len(hot) + 1
                  /\ SubSeq(main, 1, Len(hot)) = hot
                  /\ main[Len(hot) + 1] = "\n"
                  /\ \A i \in LineStarts(rest) : rest[i] = "# "
                  /\ Uncommented(rest) = PlainMain
                  /\ Len(rest) = Len(PlainMain) + Cardinality(LineStarts(PlainMain))

\* C7 witness: a hot-reload project with a database and localization has been
\* generated, so every fragment of both entry points is filled in.
C7_Witness ==
    /\ status = "ok" /\ args.use_hotreload = "yes"
    /\ args.use_localization = "yes" /\ args.name_database = "firebase"

RuPo == FileKey(PoDir(ProjectRoot), "ru", ".po")

LocalizationKept ==
    /\ ProjectRoot \o <<"data">> \in dirs
    /\ FileKey(ProjectRoot \o <<"libs">>, "translation", ".py") \in DOMAIN files
    /\ FileKey(ProjectRoot, "messages", ".pot") \in DOMAIN files
    /\ RuPo \in DOMAIN files

LocalizationAbsent ==
    /\ ProjectRoot \o <<"data">> \notin dirs
    /\ \A k \in DOMAIN files : ~IsPrefix(ProjectRoot \o <<"data">>, k.dir)
    /\ FileKey(ProjectRoot \o <<"libs">>, "translation", ".py") \notin DOMAIN files
    /\ FileKey(ProjectRoot, "messages", ".pot") \notin DOMAIN files

CompiledCatalogExists ==
    \E k \in DOMAIN files : IsPrefix(ProjectRoot \o <<"data">>, k.dir) /\ k.ext = ".mo"

\* ru.po has each of the four phrases followed by its translation
FourTranslations ==
    /\ RuPo \in DOMAIN files
    /\ \A i \in 1..4 :
          \E j \in 1..(Len(files[RuPo]) - 2) :
             /\ files[RuPo][j] = MsgId(i)
             /\ files[RuPo][j + 1] = "\n"
             /\ files[RuPo][j + 2] = MsgStrRu(i)

C9_AsStated ==
    (run = 1 /\ pc \notin ValidationSteps) => status # "crash"

RequirementsFile == FileKey(ProjectRoot, "requirements", ".txt")

DatabaseBlock ==
    <<"kivy==2.1.0", "\n", "kivymd==1.0.0", "\n", "multitasking", "\n",
      "firebase", "\n", "firebase-admin", "\n", "python_jwt", "\n", "gcloud", "\n",
      "sseclient", "\n", "pycryptodome==3.4.3", "\n", "requests_toolbelt", "\n">>

PlainBlock == <<"kivy==2.1.0", "\n", "kivymd==1.0.0", "\n">>

\* C10 as stated: after a successful generation requirements.txt is the
\* database block when a database is selected and the two-line block when
\* not.
C10_AsStated ==
    status = "ok" =>
        /\ RequirementsFile \in DOMAIN files
        /\ files[RequirementsFile] =
              IF args.name_database \in {"firebase", "restdb"} THEN DatabaseBlock
              ELSE PlainBlock

\* C10 amended: requirements.txt is the block chosen by the database flag
\* alone, followed by the word watchdog when hot reload is selected.
C10_Requirements ==
    status = "ok" =>
        /\ RequirementsFile \in DOMAIN files
        /\ files[RequirementsFile] =
              (IF args.name_database \in {"firebase", "restdb"} THEN DatabaseBlock
               ELSE PlainBlock)
              \o (IF args.use_hotreload = "yes" THEN <<"watchdog">> ELSE <<>>)

\* C10 witness: a hot-reload project with the restdb backend has been
\* generated.
C10_Witness ==
    /\ status = "ok" /\ args.use_hotreload = "yes" /\ args.name_database = "restdb"
    /\ RequirementsFile \in DOMAIN files

ProjectDir(name) == ProjectRoot \o <<name>>

\* C11: a first run with the MVC pattern, a new destination, valid
\* arguments, no database, no hot reload and no localization never ends in
\* an error or an exception, and when it has ended the project has the
\* Model, View, Controller and Utility directories with their package files,
\* a requirements.txt of exactly the two lines kivy and kivymd, and no
\* .py_tmp file.
C11_EndToEnd ==
    (/\ run = 1 /\ ~ShouldBeRejected
     /\ args.name_database = "no" /\ args.use_hotreload = "no"
     /\ args.use_localization = "no") =>
        /\ status \in {"running", "ok"}
        /\ pc = "done" =>
              /\ status = "ok"
              /\ \A name \in {"Model", "View", "Controller", "Utility"} :
                    /\ ProjectDir(name) \in dirs
                    /\ FileKey(ProjectDir(name), "__init__", ".py") \in DOMAIN files
              /\ RequirementsFile \in DOMAIN files
              /\ files[RequirementsFile] = <<"kivy==2.1.0", "\n", "kivymd==1.0.0", "\n">>
              /\ \A k \in DOMAIN files : InProject(k) => k.ext # ".py_tmp"

\* C11 witness: such a run has ended with exit status 0.
C11_Witness ==
    /\ run = 1 /\ status = "ok" /\ pc = "done" /\ args.pattern = "MVC"
    /\ args.name_database = "no" /\ args.use_hotreload = "no"
    /\ args.use_localization = "no"
    /\ ProjectDir("Utility") \in dirs

\* the lines of main.py that are not commented out
ActiveMain ==
    IF args.use_hotreload = "yes"
    THEN SubSeq(files[MainFile], 1,
                Len(Fmt(_hot_reload_main, HotReloadValues(args))))
    ELSE files[MainFile]

Imports(text, line) == \E i \in DOMAIN text : text[i] = line

\* C12: after a successful generation main.py, plain or hot-reload, imports
\* Model.database only if Model/database.py is in the output, and
\* libs.translation only if libs/translation.py is; a commented import
\* counts as well.
C12_ImportsResolve ==
    status = "ok" =>
        /\ Imports(files[MainFile], "from Model.database import DataBase") =>
              ModelFile("database") \in DOMAIN files
        /\ Imports(files[MainFile], "from libs.translation import Translation") =>
              FileKey(ProjectDir("libs"), "translation", ".py") \in DOMAIN files

\* C12 witness: a hot-reload project with database and localization has been
\* generated; main.py has both imports and both modules are in the output.
C12_Witness ==
    /\ status = "ok" /\ args.use_hotreload = "yes"
    /\ Imports(ActiveMain, "from Model.database import DataBase")
    /\ Imports(ActiveMain, "from libs.translation import Translation")
    /\ ModelFile("database") \in DOMAIN files

CountOf(text, token) == Cardinality({i \in DOMAIN text : text[i] = token})

\* C13: when create_main_with_hotreload is about to run, the text it will
\* format (the hot-reload template, a line break and the commented plain
\* entry point) has as many "%s" as the tuple has values; the run never stops
\* with an exception there, and no "%s" is left in main.py afterwards.
C13_PlaceholdersInSync ==
    /\ (pc = "hotreload" /\ status = "running") =>
          /\ MainFile \in DOMAIN files
          /\ CountOf(_hot_reload_main, "%s") + CountOf(files[MainFile], "%s")
                = Len(HotReloadValues(args))
    /\ ~(pc = "hotreload" /\ status = "crash")
    /\ (args.use_hotreload = "yes" /\ status = "ok") => CountOf(files[MainFile], "%s") = 0

\* C13 witness: the nested substitution has been done for a project with a
\* database and localization, and the run went on.
C13_Witness ==
    /\ args.use_hotreload = "yes" /\ args.use_localization = "yes"
    /\ args.name_database = "restdb"
    /\ pc = "create_makefile" /\ status = "running"
    /\ \E i \in DOMAIN events :
          events[i].op = "fill" /\ events[i].stem = "main" /\ events[i].ext = ".py"

\* the kinds of events: filling (replace_in_file and the renames of a
\* placeholder file to its real extension), pruning (deletions), external
\* commands, and provisioning (the requirements manifest, the commands, the
\* ru.po patch)
IsFill(e) ==
    \/ e.op \in {"fill", "rename_ext"}
    \/ e.op = "rename" /\ e.ext = ".py_tmp" /\ e.to = ".py"

IsPrune(e) == e.op \in {"remove", "rmtree"}

IsCommand(e) ==
    e.op \notin {"copytree", "copy", "fill", "write", "append", "remove", "rename",
                 "rename_ext", "rmtree", "mkdir", "patch"}

IsProvision(e) ==
    \/ IsCommand(e)
    \/ e.op = "patch"
    \/ e.op \in {"write", "append"} /\ e.stem = "requirements"

\* C14 as stated: in a successful run every fill comes before every pruning
\* deletion, and every pruning deletion before every provisioning action.
C14_AsStated ==
    status = "ok" =>
        \A i \in DOMAIN events, j \in DOMAIN events :
            /\ (IsFill(events[i]) /\ IsPrune(events[j])) => i < j
            /\ (IsPrune(events[i]) /\ IsProvision(events[j])) => i < j

\* C14 amended: the copy of the template is the first thing a run does, and
\* every fill and every pruning deletion comes before every external command
\* (make po, make mo, pip, virtualenv); fills and pruning deletions are
\* interleaved, and the requirements manifest is written in between.
C14_FillAndPruneBeforeCommands ==
    /\ events # <<>> => events[1].op = "copytree"
    /\ \A i \in DOMAIN events, j \in DOMAIN events :
          (IsCommand(events[i]) /\ (IsFill(events[j]) \/ IsPrune(events[j]))) => j < i

\* C14 witness: a run with fills, pruning deletions and all the commands has
\* ended.
C14_Witness ==
    /\ status = "ok" /\ args.use_localization = "yes" /\ args.use_hotreload = "yes"
    /\ \E i \in DOMAIN events : IsPrune(events[i])
    /\ \E i \in DOMAIN events : events[i].op = "make mo"
    /\ \E i \in DOMAIN events : events[i].op = "virtualenv"

\* the positions of the tree walk of rename_ext_py_tmp_to_py in the event log
Walks == {i \in DOMAIN events : events[i].op = "rename_ext"}

\* a rename of one placeholder file to its real extension, outside the walk
IsPerFileRename(e) == e.op = "rename" /\ e.ext = ".py_tmp" /\ e.to = ".py"

\* C15 as stated: one walk, no per-file rename of a placeholder file to its
\* real extension, and no replace_in_file after the walk.
C15_AsStated ==
    status = "ok" =>
        /\ Cardinality(Walks) = 1
        /\ \A i \in DOMAIN events : ~IsPerFileRename(events[i])
        /\ \A i \in Walks, j \in DOMAIN events : events[j].op = "fill" => j < i

\* C15 amended: the walk is done at most once, and exactly once in a
\* successful run, after every placeholder-extension and .kv template file
\* has been filled; the one placeholder file renamed outside the walk is
\* View/base_screen, renamed by create_view before the walk; the only files
\* filled after the walk are main.py (hot reload) and Makefile (localization).
C15_SingleWalk ==
    /\ Cardinality(Walks) <= 1
    /\ status = "ok" => Cardinality(Walks) = 1
    /\ \A j \in DOMAIN events :
          IsPerFileRename(events[j]) =>
              /\ events[j].dir = ProjectDir("View") /\ events[j].stem = "base_screen"
              /\ \A i \in Walks : j < i
    /\ \A i \in Walks, j \in DOMAIN events :
          (events[j].op = "fill" /\ i < j) =>
              /\ events[j].dir = ProjectRoot
              /\ \/ events[j].stem = "main" /\ events[j].ext = ".py"
                    /\ args.use_hotreload = "yes"
                 \/ events[j].stem = "Makefile" /\ events[j].ext = ""
                    /\ args.use_localization = "yes"
    /\ \A i \in Walks, j \in DOMAIN events :
          (events[j].op = "fill" /\ events[j].ext \in {".py_tmp", ".kv"}) => j < i

\* C15 witness: a run has ended in which base_screen was renamed before the
\* walk and main.py and Makefile were filled after it.
C15_Witness ==
    /\ status = "ok"
    /\ \E i \in Walks :
          /\ \E j \in 1..(i - 1) : IsPerFileRename(events[j])
          /\ \E j \in DOMAIN events :
                j > i /\ events[j].op = "fill" /\ events[j].stem = "main"
          /\ \E j \in DOMAIN events :
                j > i /\ events[j].op = "fill" /\ events[j].stem = "Makefile"

\* the provisioning stage an event belongs to: 1 the requirements manifest,
\* 2 catalog extraction, 3 the ru.po patch, 4 catalog compilation, 5 the
\* creation of the virtual environment (both commands of
\* create_virtual_environment), 6 the installs of install_requirements;
\* 0 for an event that is not provisioning
Stage(e) ==
    IF e.op \in {"write", "append"} /\ e.stem = "requirements" THEN 1
    ELSE IF e.op = "make po" THEN 2
    ELSE IF e.op = "patch" THEN 3
    ELSE IF e.op = "make mo" THEN 4
    ELSE IF e.op \in {"pip install virtualenv", "virtualenv"} THEN 5
    ELSE IF IsCommand(e) THEN 6
    ELSE 0

HasStage(n) == \E i \in DOMAIN events : Stage(events[i]) = n

C17_AsStated ==
    args.use_localization = "yes" =>
        /\ ~(status = "crash" /\ pc \in {"po_file", "create_mofile", "venv", "install"})
        /\ \A i \in DOMAIN events :
              /\ events[i].op = "patch" => events[i].dir = PoDir(ProjectRoot)
              /\ events[i].op = "make mo" => events[i].dir = ProjectRoot
              /\ (events[i].op = "virtualenv" /\ events[i].ok) =>
                    ProjectDir("venv") \o <<"bin">> \in dirs

\* the attributes of the application to which the entry point assigns a
\* DataBase() instance
AssignedAttributes(text) ==
    {"self.database" : i \in {j \in DOMAIN text : text[j] = "self.database = DataBase()"}}
    \cup {"self.base" : i \in {j \in DOMAIN text : text[j] = "        self.base = DataBase()"}}

\* what the entry point passes to the constructor of the model
PassedArguments(text) ==
    {text[i + 1] : i \in {j \in DOMAIN text :
        /\ j < Len(text)
        /\ text[j] = "            model = screens[name_screen][\"model\"]("
        /\ text[j + 1] # ")"}}

\* C18 as stated: in the entry point of a generated project, plain or hot
\* reload, the database fragments are all empty when there is no database,
\* and with a database the attribute the DataBase() instance is assigned to is
\* the attribute passed to the constructor of the model.
C18_AsStated ==
    status = "ok" =>
        IF args.name_database = "no"
        THEN /\ AssignedAttributes(ActiveMain) = {}
             /\ PassedArguments(ActiveMain) = {}
             /\ ~Imports(ActiveMain, "from Model.database import DataBase")
        ELSE /\ Cardinality(AssignedAttributes(ActiveMain)) = 1
             /\ PassedArguments(ActiveMain) = AssignedAttributes(ActiveMain)
             /\ Imports(ActiveMain, "from Model.database import DataBase")

====
